---- MODULE Spec2Model ----
(***************************************************************************)
(* A model of boto/ec2/cloudwatch/alarm.py: the MetricAlarm record (its    *)
(* constructor, the startElement/endElement parse callbacks, the three     *)
(* add-action methods, the six operations delegated to the connection) and *)
(* the AlarmHistoryItem record (its endElement callback).                  *)
(*                                                                         *)
(* Python values are tagged records, so that a raw string, an int, a       *)
(* float and None are told apart:                                          *)
(*   None            [t |-> "None"]                                        *)
(*   'abc'           [t |-> "str",   s |-> "abc"]                          *)
(*   60              [t |-> "int",   n |-> 60]                             *)
(*   2.5             [t |-> "float", x10 |-> 25]      (tenths)             *)
(*   True            [t |-> "bool",  b |-> TRUE]                           *)
(*   a list object   [t |-> "list",  id |-> i, items |-> <<...>>]          *)
(* A list carries the identity of the object (id), so that a fresh list    *)
(* differs from the one it replaces and the parser's child context can     *)
(* alias the list held in a field.  An object is the function from its     *)
(* attribute names to their values; attribute assignment extends it.       *)
(***************************************************************************)
EXTENDS Integers, Sequences, FiniteSets, TLC

VARIABLES
    self,     \* the MetricAlarm: attribute name -> value (NoObject if none)
    item,     \* the AlarmHistoryItem: attribute name -> value (NoObject if none)
    nextId,   \* identity the next allocated list object gets
    ctx,      \* identity of the list the parser was last handed as child context (0: none)
    conn,     \* the calls received by the connection collaborator, oldest first
    call,     \* the operation performed last: [op, args]
    result,   \* what it did: [kind |-> "return", val] or [kind |-> "raise", exc]
    steps     \* operations performed since construction

vars == <<self, item, nextId, ctx, conn, call, result, steps>>

\* Operations explored after a construction.
MaxSteps == 3

----------------------------------------------------------------------------
\* Python values

None == [t |-> "None"]
Str(s) == [t |-> "str", s |-> s]
PyInt(n) == [t |-> "int", n |-> n]
PyFloat(x10) == [t |-> "float", x10 |-> x10]
PyBool(b) == [t |-> "bool", b |-> b]
PyList(id, items) == [t |-> "list", id |-> id, items |-> items]
\* a list literal built for one call, e.g. [self.name]
ArgList(items) == [t |-> "arglist", items |-> items]
\* the record itself passed as an argument
SelfRef == [t |-> "MetricAlarm"]
\* the connection collaborator
Connection == [t |-> "connection"]

NoObject == [t |-> "NoObject"]

Return(v) == [kind |-> "return", val |-> v]
Raise(e) == [kind |-> "raise", exc |-> e]

\* obj.n = v
SetAttr(obj, n, v) == [k \in (DOMAIN obj) \cup {n} |-> IF k = n THEN v ELSE obj[k]]

\* Python truth value: `not v` is Falsy(v)
Falsy(v) ==
    \/ v.t = "None"
    \/ v.t = "str" /\ v.s = ""
    \/ v.t = "int" /\ v.n = 0
    \/ v.t = "float" /\ v.x10 = 0
    \/ v.t = "bool" /\ ~v.b
    \/ v.t \in {"list", "arglist"} /\ v.items = <<>>

\* The decimal texts of the model and the numbers they denote, in tenths.
FloatLiterals == ("5.0" :> 50) @@ ("5" :> 50) @@ ("2.5" :> 25) @@ ("60" :> 600) @@ ("2" :> 20)
\* The texts int() accepts: digits only.
IntLiterals == ("5" :> 5) @@ ("60" :> 60) @@ ("2" :> 2)

py_float_raw(v) == Return(v)

\* float(v)
py_float(v) ==
    CASE v.t = "str" ->
           IF v.s \in DOMAIN FloatLiterals
           THEN Return(PyFloat(FloatLiterals[v.s])) ELSE Raise("ValueError")
      [] v.t = "int" -> Return(PyFloat(v.n * 10))
      [] v.t = "float" -> Return(v)
      [] v.t = "bool" -> Return(PyFloat(IF v.b THEN 10 ELSE 0))
      [] OTHER -> Raise("TypeError")

\* int(v)
py_int(v) ==
    CASE v.t = "str" ->
           IF v.s \in DOMAIN IntLiterals
           THEN Return(PyInt(IntLiterals[v.s])) ELSE Raise("ValueError")
      [] v.t = "int" -> Return(v)
      [] v.t = "float" -> Return(PyInt(v.x10 \div 10))
      [] v.t = "bool" -> Return(PyInt(IF v.b THEN 1 ELSE 0))
      [] OTHER -> Raise("TypeError")

----------------------------------------------------------------------------
\* MetricAlarm

_cmp_map_swapped ==
    (">=" :> "GreaterThanOrEqualToThreshold") @@ (">" :> "GreaterThanThreshold")
    @@ ("<" :> "LessThanOrEqualToThreshold") @@ ("<=" :> "LessThanThreshold")

_cmp_map ==
    (">=" :> "GreaterThanOrEqualToThreshold") @@ (">" :> "GreaterThanThreshold")
    @@ ("<" :> "LessThanThreshold") @@ ("<=" :> "LessThanOrEqualToThreshold")

\* dict((v, k) for (k, v) in _cmp_map.iteritems())
_rev_cmp_map ==
    [v \in {_cmp_map[k] : k \in DOMAIN _cmp_map} |->
        CHOOSE k \in DOMAIN _cmp_map : _cmp_map[k] = v]

cmp_map_get_identity(comparison) == comparison

\* self._cmp_map.get(comparison)
cmp_map_get(comparison) ==
    IF comparison.t = "str" /\ comparison.s \in DOMAIN _cmp_map
    THEN Str(_cmp_map[comparison.s]) ELSE None

rev_cmp_map_get(value) ==
    IF value.t = "str" /\ value.s \in DOMAIN _rev_cmp_map
    THEN Return(Str(_rev_cmp_map[value.s])) ELSE Return(None)

\* self._rev_cmp_map[value]
rev_cmp_map_getitem(value) ==
    IF value.t = "str" /\ value.s \in DOMAIN _rev_cmp_map
    THEN Return(Str(_rev_cmp_map[value.s])) ELSE Raise("KeyError")

\* ListElement(alarm_action): the growable string sequence holding the one
\* initial action.
ListElement_of(id, alarm_action) == PyList(id, <<alarm_action>>)

\* MetricAlarm.__init__(connection, name, ..., dimensions); a holds the
\* keyword arguments, id0.. are the identities of the lists it allocates.
\* The coercions run in the order of the code, and the first that fails
\* ends the construction.
MetricAlarm_init(a, id0) ==
    LET th == IF a.threshold # None THEN py_float(a.threshold) ELSE Return(None)
        pe == IF a.period # None THEN py_int(a.period) ELSE Return(None)
        ev == IF a.evaluation_periods # None
              THEN py_int(a.evaluation_periods) ELSE Return(None)
    IN  IF th.kind = "raise" THEN [self |-> NoObject, out |-> th]
        ELSE IF pe.kind = "raise" THEN [self |-> NoObject, out |-> pe]
        ELSE IF ev.kind = "raise" THEN [self |-> NoObject, out |-> ev]
        ELSE [self |->
                [name |-> a.name,
                 connection |-> a.connection,
                 metric |-> a.metric,
                 namespace |-> a.namespace,
                 statistic |-> a.statistic,
                 threshold |-> th.val,
                 comparison |-> cmp_map_get(a.comparison),
                 period |-> pe.val,
                 evaluation_periods |-> ev.val,
                 actions_enabled |->
                     IF a.actions_enabled = PyBool(TRUE) THEN PyInt(1) ELSE PyInt(0),
                 alarm_arn |-> None,
                 last_updated |-> None,
                 description |-> Str(""),
                 dimensions |-> a.dimensions,
                 insufficient_data_actions |-> PyList(id0, <<>>),
                 ok_actions |-> PyList(id0 + 1, <<>>),
                 state_reason |-> None,
                 state_value |-> None,
                 unit |-> None,
                 alarm_actions |->
                     IF a.alarm_action # None
                     THEN ListElement_of(id0 + 2, a.alarm_action) ELSE None],
              out |-> Return(None)]

startElement_keep(s, name, id) ==
    CASE name = "AlarmActions" ->
           [self |-> SetAttr(s, "alarm_actions", PyList(id, <<>>)),
            out |-> Return(PyList(id, <<>>))]
      [] name = "InsufficientDataActions" ->
           [self |-> SetAttr(s, "insufficient_data_actions", PyList(id, <<>>)),
            out |-> Return(PyList(id, <<>>))]
      [] name = "OKActions" ->
           [self |-> s, out |-> Return(s["ok_actions"])]
      [] OTHER -> [self |-> s, out |-> Return(None)]

\* MetricAlarm.startElement(name, attrs, connection); id is the identity of
\* the ListElement() it may allocate.
startElement(s, name, id) ==
    CASE name = "AlarmActions" ->
           [self |-> SetAttr(s, "alarm_actions", PyList(id, <<>>)),
            out |-> Return(PyList(id, <<>>))]
      [] name = "InsufficientDataActions" ->
           [self |-> SetAttr(s, "insufficient_data_actions", PyList(id, <<>>)),
            out |-> Return(PyList(id, <<>>))]
      [] name = "OKActions" ->
           [self |-> SetAttr(s, "ok_actions", PyList(id, <<>>)),
            out |-> Return(PyList(id, <<>>))]
      [] OTHER -> [self |-> s, out |-> Return(None)]

\* self.<attr> = <conv>(value): the assignment happens only if the
\* conversion returned.
AssignConverted(s, attr, r) ==
    IF r.kind = "raise" THEN [self |-> s, out |-> r]
    ELSE [self |-> SetAttr(s, attr, r.val), out |-> Return(None)]

\* MetricAlarm.endElement(name, value, connection)
endElement(s, name, value) ==
    CASE name = "ActionsEnabled" -> AssignConverted(s, "actions_enabled", Return(value))
      [] name = "AlarmArn" -> AssignConverted(s, "alarm_arn", Return(value))
      [] name = "AlarmConfigurationUpdatedTimestamp" ->
           AssignConverted(s, "last_updated", Return(value))
      [] name = "AlarmDescription" -> AssignConverted(s, "description", Return(value))
      [] name = "AlarmName" -> AssignConverted(s, "name", Return(value))
      [] name = "ComparisonOperator" ->
           AssignConverted(s, "comparison", rev_cmp_map_getitem(value))
      [] name = "EvaluationPeriods" ->
           AssignConverted(s, "evaluation_periods", py_int(value))
      [] name = "MetricName" -> AssignConverted(s, "metric", Return(value))
      [] name = "Namespace" -> AssignConverted(s, "namespace", Return(value))
      [] name = "Period" -> AssignConverted(s, "period", py_int(value))
      [] name = "StateReason" -> AssignConverted(s, "state_reason", Return(value))
      [] name = "StateValue" -> AssignConverted(s, "state_value", Return(value))
      [] name = "Statistic" -> AssignConverted(s, "statistic", Return(value))
      [] name = "Threshold" -> AssignConverted(s, "threshold", py_float(value))
      [] name = "Unit" -> AssignConverted(s, "unit", Return(value))
      [] OTHER -> AssignConverted(s, name, Return(value))

\* self.<attr>.append(action_arn), after self.actions_enabled = 'true':
\* a value that is no list has no append.
AppendAction(s, attr, action_arn) ==
    LET s1 == SetAttr(s, "actions_enabled", Str("true"))
    IN  IF s1[attr].t = "list"
        THEN [self |-> SetAttr(s1, attr,
                          PyList(s1[attr].id, Append(s1[attr].items, action_arn))),
              out |-> Return(None)]
        ELSE [self |-> s1, out |-> Raise("AttributeError")]

add_alarm_action_noneOnly(s, action_arn) ==
    IF action_arn = None THEN [self |-> s, out |-> Return(None)]
    ELSE AppendAction(s, "alarm_actions", action_arn)

\* MetricAlarm.add_alarm_action(action_arn)
add_alarm_action(s, action_arn) ==
    IF Falsy(action_arn) THEN [self |-> s, out |-> Return(None)]
    ELSE AppendAction(s, "alarm_actions", action_arn)

\* MetricAlarm.add_insufficient_data_action(action_arn)
add_insufficient_data_action(s, action_arn) ==
    IF Falsy(action_arn) THEN [self |-> s, out |-> Return(None)]
    ELSE AppendAction(s, "insufficient_data_actions", action_arn)

\* MetricAlarm.add_ok_action(action_arn)
add_ok_action(s, action_arn) ==
    IF Falsy(action_arn) THEN [self |-> s, out |-> Return(None)]
    ELSE AppendAction(s, "ok_actions", action_arn)

\* self.connection.<method>(*args), the collaborator returning r: with no
\* connection (None) the attribute lookup on it fails and nothing is sent.
Delegate(s, method, args, r) ==
    IF s["connection"].t = "connection"
    THEN [out |-> Return(r), sent |-> <<[method |-> method, args |-> args, ret |-> r]>>]
    ELSE [out |-> Raise("AttributeError"), sent |-> <<>>]

set_state_swapped(s, value, reason, data, r) ==
    Delegate(s, "set_alarm_state", <<s["name"], value, reason, data>>, r)

\* MetricAlarm.set_state(value, reason, data)
set_state(s, value, reason, data, r) ==
    Delegate(s, "set_alarm_state", <<s["name"], reason, value, data>>, r)

\* MetricAlarm.update()
update(s, r) == Delegate(s, "update_alarm", <<SelfRef>>, r)

\* MetricAlarm.enable_actions()
enable_actions(s, r) ==
    Delegate(s, "enable_alarm_actions", <<ArgList(<<s["name"]>>)>>, r)

\* MetricAlarm.disable_actions()
disable_actions(s, r) ==
    Delegate(s, "disable_alarm_actions", <<ArgList(<<s["name"]>>)>>, r)

\* MetricAlarm.describe_history(start_date, end_date, max_records,
\*                              history_item_type, next_token)
describe_history(s, start_date, end_date, max_records, history_item_type, next_token, r) ==
    Delegate(s, "describe_alarm_history",
             <<s["name"], start_date, end_date, max_records, history_item_type,
               next_token>>, r)

\* MetricAlarm.delete(): the call's value is dropped, the method returns None.
delete(s, r) ==
    LET d == Delegate(s, "delete_alarms", <<ArgList(<<SelfRef>>)>>, r)
    IN  [out |-> IF d.out.kind = "return" THEN Return(None) ELSE d.out,
         sent |-> d.sent]

----------------------------------------------------------------------------
\* ListElement, the child context of the three action containers: a list
\* whose endElement appends the text of each member node.
ListElement_endElement(l, name, value) ==
    IF name = "member" THEN PyList(l.id, Append(l.items, value)) ELSE l

----------------------------------------------------------------------------
\* AlarmHistoryItem

\* The JSON texts of the model and the values they decode to.
JsonTexts ==
    ("{\"a\":1}" :> [t |-> "dict", keys |-> <<"a">>, vals |-> <<PyInt(1)>>])
    @@ ("null" :> None)

\* json.loads(value)
json_loads(value) ==
    IF value.s \in DOMAIN JsonTexts
    THEN Return(JsonTexts[value.s]) ELSE Raise("ValueError")

\* The texts of the model that match '%Y-%m-%dT%H:%M:%S.%fZ'.
TimestampTexts ==
    ("2021-01-01T00:00:00.000000Z" :>
        [t |-> "datetime", year |-> 2021, month |-> 1, day |-> 1,
         hour |-> 0, minute |-> 0, second |-> 0, microsecond |-> 0])
    @@ ("2021-06-15T12:30:45.250000Z" :>
        [t |-> "datetime", year |-> 2021, month |-> 6, day |-> 15,
         hour |-> 12, minute |-> 30, second |-> 45, microsecond |-> 250000])

\* datetime.strptime(value, '%Y-%m-%dT%H:%M:%S.%fZ')
strptime(value) ==
    IF value.s \in DOMAIN TimestampTexts
    THEN Return(TimestampTexts[value.s]) ELSE Raise("ValueError")

\* AlarmHistoryItem.__init__(connection)
AlarmHistoryItem_init(connection) == [connection |-> connection]

\* AlarmHistoryItem.startElement(name, attrs, connection)
AlarmHistoryItem_startElement(it, name) == [self |-> it, out |-> Return(None)]

\* AlarmHistoryItem.endElement(name, value, connection): a name that is
\* none of the five assigns nothing.
AlarmHistoryItem_endElement(it, name, value) ==
    CASE name = "AlarmName" -> AssignConverted(it, "name", Return(value))
      [] name = "HistoryData" -> AssignConverted(it, "data", json_loads(value))
      [] name = "HistoryItemType" -> AssignConverted(it, "tem_type", Return(value))
      [] name = "HistorySummary" -> AssignConverted(it, "summary", Return(value))
      [] name = "Timestamp" -> AssignConverted(it, "timestamp", strptime(value))
      [] OTHER -> [self |-> it, out |-> Return(None)]

----------------------------------------------------------------------------
\* The operations as steps.  Each records itself in call and its outcome in
\* result; an exception leaves the record as the operator returned it.

Alive == self # NoObject /\ steps < MaxSteps

Step(op, args, out) ==
    /\ call' = [op |-> op, args |-> args]
    /\ result' = out
    /\ steps' = steps + 1

\* The parser enters node `name` of the alarm: the returned list, if any,
\* becomes its child context.
StartElement(name) ==
    /\ Alive
    /\ LET r == startElement(self, name, nextId)
       IN  /\ self' = r.self
           /\ Step("startElement", <<Str(name)>>, r.out)
           /\ IF r.out.val # None
              THEN nextId' = nextId + 1 /\ ctx' = r.out.val.id
              ELSE nextId' = nextId /\ ctx' = 0
    /\ UNCHANGED <<item, conn>>

\* The parser leaves node `name` of the alarm with leaf text `value`.
EndElement(name, value) ==
    /\ Alive
    /\ LET r == endElement(self, name, Str(value))
       IN  self' = r.self /\ Step("endElement", <<Str(name), Str(value)>>, r.out)
    /\ ctx' = 0
    /\ UNCHANGED <<item, nextId, conn>>

\* The parser leaves a node inside the child context: the list that
\* startElement returned, which is the one a field of the alarm holds.
ListEndElement(name, value) ==
    /\ Alive
    /\ ctx # 0
    /\ \E f \in {"alarm_actions", "insufficient_data_actions", "ok_actions"} :
          /\ self[f].t = "list"
          /\ self[f].id = ctx
          /\ self' = SetAttr(self, f, ListElement_endElement(self[f], name, Str(value)))
    /\ Step("ListElement.endElement", <<Str(name), Str(value)>>, Return(None))
    /\ UNCHANGED <<item, nextId, ctx, conn>>

AddAlarmAction(action_arn) ==
    /\ Alive
    /\ LET r == add_alarm_action(self, action_arn)
       IN  self' = r.self /\ Step("add_alarm_action", <<action_arn>>, r.out)
    /\ UNCHANGED <<item, nextId, ctx, conn>>

AddInsufficientDataAction(action_arn) ==
    /\ Alive
    /\ LET r == add_insufficient_data_action(self, action_arn)
       IN  self' = r.self /\ Step("add_insufficient_data_action", <<action_arn>>, r.out)
    /\ UNCHANGED <<item, nextId, ctx, conn>>

AddOkAction(action_arn) ==
    /\ Alive
    /\ LET r == add_ok_action(self, action_arn)
       IN  self' = r.self /\ Step("add_ok_action", <<action_arn>>, r.out)
    /\ UNCHANGED <<item, nextId, ctx, conn>>

\* A delegated operation: d is what the method did, given the value the
\* collaborator returns.
Delegated(op, args, d) ==
    /\ conn' = conn \o d.sent
    /\ Step(op, args, d.out)
    /\ UNCHANGED <<self, item, nextId, ctx>>

SetState(value, reason, data, r) ==
    Alive /\ Delegated("set_state", <<value, reason, data>>,
                       set_state(self, value, reason, data, r))

Update(r) == Alive /\ Delegated("update", <<>>, update(self, r))

EnableActions(r) == Alive /\ Delegated("enable_actions", <<>>, enable_actions(self, r))

DisableActions(r) == Alive /\ Delegated("disable_actions", <<>>, disable_actions(self, r))

DescribeHistory(a, r) ==
    Alive /\ Delegated("describe_history", a,
                       describe_history(self, a[1], a[2], a[3], a[4], a[5], r))

Delete(r) == Alive /\ Delegated("delete", <<>>, delete(self, r))

HistoryStartElement(name) ==
    /\ item # NoObject
    /\ LET r == AlarmHistoryItem_startElement(item, name)
       IN  /\ item' = r.self
           /\ call' = [op |-> "AlarmHistoryItem.startElement", args |-> <<Str(name)>>]
           /\ result' = r.out
    /\ UNCHANGED <<self, nextId, ctx, conn, steps>>

HistoryEndElement(name, value) ==
    /\ item # NoObject
    /\ LET r == AlarmHistoryItem_endElement(item, name, Str(value))
       IN  /\ item' = r.self
           /\ call' = [op |-> "AlarmHistoryItem.endElement",
                       args |-> <<Str(name), Str(value)>>]
           /\ result' = r.out
    /\ UNCHANGED <<self, nextId, ctx, conn, steps>>

----------------------------------------------------------------------------
\* Construction.  The keyword arguments left out are None.

NoArgs ==
    [connection |-> Connection, name |-> None, metric |-> None, namespace |-> None,
     statistic |-> None, comparison |-> None, threshold |-> None, period |-> None,
     evaluation_periods |-> None, actions_enabled |-> None, alarm_action |-> None,
     dimensions |-> None]

\* The state after MetricAlarm(**a) for some a of Args.
Constructed(Args) ==
    \E a \in Args :
        LET r == MetricAlarm_init(a, 1)
        IN  /\ self = r.self
            /\ result = r.out
            /\ call = [op |-> "__init__", args |-> <<a>>]
            /\ nextId = IF a.alarm_action # None THEN 4 ELSE 3
            /\ ctx = 0
            /\ conn = <<>>
            /\ item = NoObject
            /\ steps = 0

\* The callbacks and add-action calls on an alarm, over the given inputs:
\* leaves (node name, text), entered node names, action ARNs, and the
\* (node name, text) leaves inside a child context.
AlarmNext(Leaves, Entered, Arns, ListLeaves) ==
    \/ \E l \in Leaves : EndElement(l[1], l[2])
    \/ \E n \in Entered : StartElement(n)
    \/ \E l \in ListLeaves : ListEndElement(l[1], l[2])
    \/ \E a \in Arns : AddAlarmAction(a)
    \/ \E a \in Arns : AddInsufficientDataAction(a)
    \/ \E a \in Arns : AddOkAction(a)

Containers == {"AlarmActions", "InsufficientDataActions", "OKActions"}
WireForms == {"GreaterThanOrEqualToThreshold", "GreaterThanThreshold",
              "LessThanThreshold", "LessThanOrEqualToThreshold"}
Symbols == {">=", ">", "<", "<="}

\* --- the comparison operator: construction with each operator, parse of
\* each wire value
ComparisonArgs ==
    {[NoArgs EXCEPT !.comparison = c, !.threshold = th] :
        c \in {None} \cup {Str(x) : x \in Symbols \cup {"==", "GreaterThanThreshold"}},
        th \in {None, Str("5.0")}}
ComparisonLeaves ==
    ({"ComparisonOperator"} \X (WireForms \cup {"BogusOperator", ">"}))
    \cup {<<"comparison", "GreaterThanThreshold">>, <<"Foo", "bar">>,
          <<"AlarmName", "a2">>, <<"Threshold", "5.0">>}
InitComparison == Constructed(ComparisonArgs)
NextComparison ==
    AlarmNext(ComparisonLeaves, {"AlarmActions", "Dimensions"},
              {None, Str("arn:a")}, {<<"member", "arn:m">>})
SpecComparison == InitComparison /\ [][NextComparison]_vars

\* --- the action sequences: add-action calls, the three containers and
\* their members
ActionArgs ==
    {[NoArgs EXCEPT !.alarm_action = aa, !.actions_enabled = ae] :
        aa \in {None, Str("arn:a")}, ae \in {None, PyBool(TRUE)}}
ActionLeaves ==
    {<<"ActionsEnabled", "false">>, <<"AlarmName", "a2">>, <<"Foo", "bar">>,
     <<"alarm_actions", "arn:raw">>}
ActionArns == {None, Str(""), Str("arn:a"), Str("arn:b")}
InitActions == Constructed(ActionArgs)
NextActions ==
    AlarmNext(ActionLeaves, Containers \cup {"Dimensions"}, ActionArns,
              {<<"member", "arn:m">>, <<"Foo", "x">>})
SpecActions == InitActions /\ [][NextActions]_vars

\* --- every field: construction with and without the numeric arguments,
\* every recognised leaf and the unrecognised ones
RecognisedText ==
    {"ActionsEnabled", "AlarmArn", "AlarmConfigurationUpdatedTimestamp",
     "AlarmDescription", "AlarmName", "MetricName", "Namespace", "StateReason",
     "StateValue", "Statistic", "Unit"}
FieldArgs ==
    {[NoArgs EXCEPT !.threshold = th, !.period = pe, !.evaluation_periods = ev] :
        th \in {None, Str("5.0"), PyInt(5), Str("abc")},
        pe \in {None, PyInt(60), PyFloat(25)},
        ev \in {None, Str("2"), Str("5.0")}}
FieldLeaves ==
    ({"Threshold"} \X {"5.0", "abc"})
    \cup ({"Period", "EvaluationPeriods"} \X {"60", "5.0"})
    \cup (RecognisedText \X {"v"})
    \cup {<<"ComparisonOperator", "GreaterThanThreshold">>}
    \cup ({"threshold", "period", "evaluation_periods", "Foo"} \X {"5"})
Init == Constructed(FieldArgs)
Next ==
    AlarmNext(FieldLeaves, {"AlarmActions", "Dimensions"}, {Str("arn:a")},
              {<<"member", "arn:m">>})
Spec == Init /\ [][Next]_vars

\* --- the delegated operations, on a record with and without a connection
DelegationArgs ==
    {[NoArgs EXCEPT !.connection = c, !.name = n] :
        c \in {Connection, None}, n \in {None, Str("a1")}}
\* what the collaborator may return
Returned == {None, Str("ok")}
SetStateArgs ==
    {<<Str("ALARM"), Str("r"), None>>, <<Str("OK"), Str("why"), Str("d")>>}
DescribeHistoryArgs ==
    {<<None, None, None, None, None>>,
     <<Str("2021-01-01"), Str("2021-02-01"), PyInt(10), Str("StateUpdate"), Str("tok")>>}
InitDelegation == Constructed(DelegationArgs)
NextDelegation ==
    \/ EndElement("AlarmName", "a2")
    \/ \E a \in SetStateArgs, r \in Returned : SetState(a[1], a[2], a[3], r)
    \/ \E r \in Returned : Update(r)
    \/ \E r \in Returned : EnableActions(r)
    \/ \E r \in Returned : DisableActions(r)
    \/ \E a \in DescribeHistoryArgs, r \in Returned : DescribeHistory(a, r)
    \/ \E r \in Returned : Delete(r)
SpecDelegation == InitDelegation /\ [][NextDelegation]_vars

\* --- the history item
HistoryLeaves ==
    ({"AlarmName"} \X {"a1", "a2"})
    \cup ({"HistoryData"} \X {"{\"a\":1}", "null", "{bad json"})
    \cup ({"HistoryItemType"} \X {"StateUpdate", "Action"})
    \cup ({"HistorySummary"} \X {"s1", "s2"})
    \cup ({"Timestamp"} \X
            {"2021-01-01T00:00:00.000000Z", "2021-06-15T12:30:45.250000Z", "2021-01-01"})
    \cup {<<"Foo", "bar">>}
InitHistory ==
    \E c \in {Connection, None} :
        /\ item = AlarmHistoryItem_init(c)
        /\ call = [op |-> "AlarmHistoryItem.__init__", args |-> <<c>>]
        /\ result = Return(None)
        /\ self = NoObject
        /\ nextId = 1
        /\ ctx = 0
        /\ conn = <<>>
        /\ steps = 0
NextHistory ==
    \/ \E n \in {l[1] : l \in HistoryLeaves} : HistoryStartElement(n)
    \/ \E l \in HistoryLeaves : HistoryEndElement(l[1], l[2])
SpecHistory == InitHistory /\ [][NextHistory]_vars

----------------------------------------------------------------------------
\* The claims

AddOps == {"add_alarm_action", "add_insufficient_data_action", "add_ok_action"}
DelegatedOps ==
    {"set_state", "update", "enable_actions", "disable_actions", "describe_history",
     "delete"}

\* C1: in every reachable state of a MetricAlarm the comparison field is
\* unset or one of the four wire-form strings; a symbolic operator is never
\* the stored value.
C1_ComparisonStoredInWireForm ==
    self # NoObject => self["comparison"] \in {None} \cup {Str(w) : w \in WireForms}

\* comparison is unset or one of the four wire-form strings.
WireFormOrUnset(s) == s["comparison"] \in {None} \cup {Str(w) : w \in WireForms}

\* C1, amended: construction stores unset or a wire form; an endElement for
\* ComparisonOperator that returns stores one of the four symbolic operators
\* instead; an endElement for a node literally named comparison stores the
\* raw text; every other operation leaves comparison as it was.
C1_WireFormUntilParsed ==
    /\ self # NoObject => WireFormOrUnset(self)
    /\ [][IF call'.op = "endElement" /\ call'.args[1].s = "ComparisonOperator"
             /\ result'.kind = "return"
          THEN self'["comparison"] \in {Str(x) : x \in Symbols}
          ELSE \/ call'.op = "endElement" /\ call'.args[1].s = "comparison"
               \/ self'["comparison"] = self["comparison"]]_vars

C1_Witness ==
    /\ call = [op |-> "endElement",
               args |-> <<Str("ComparisonOperator"), Str("GreaterThanThreshold")>>]
    /\ result = Return(None)
    /\ self["comparison"] = Str(">")
    /\ self["alarm_actions"].t = "list"
    /\ self["alarm_actions"].items = <<Str("arn:a")>>

\* The sequence a non-empty ARN is appended to by each add-action method.
ActionField(op) ==
    CASE op = "add_alarm_action" -> "alarm_actions"
      [] op = "add_insufficient_data_action" -> "insufficient_data_actions"
      [] op = "add_ok_action" -> "ok_actions"

\* C2: on every reachable record each add-action method, called with a
\* non-empty ARN, does not raise, appends exactly that value as the new last
\* element of its sequence (the earlier elements kept in order) and leaves
\* actions_enabled truthy.
C2_AddActionAppends ==
    [][(call'.op \in AddOps /\ ~Falsy(call'.args[1])) =>
          /\ result' = Return(None)
          /\ self[ActionField(call'.op)].t = "list"
          /\ self'[ActionField(call'.op)].t = "list"
          /\ self'[ActionField(call'.op)].items =
                 Append(self[ActionField(call'.op)].items, call'.args[1])
          /\ ~Falsy(self'["actions_enabled"])]_vars

\* C3: each of the six delegated operations returns to its caller exactly
\* the value the connection collaborator's method returned.
C3_ReturnsCollaboratorValue ==
    (call.op \in DelegatedOps /\ self["connection"] = Connection) =>
        /\ conn # <<>>
        /\ result = Return(conn[Len(conn)].ret)

\* The field of the history entry each of the three text leaves is stored in.
HistoryField(name) ==
    CASE name = "AlarmName" -> "name"
      [] name = "HistoryItemType" -> "item_type"
      [] name = "HistorySummary" -> "summary"

\* C4: after AlarmHistoryItem.endElement for an AlarmName, HistoryItemType or
\* HistorySummary leaf, the field name, item_type or summary holds that
\* leaf's text; in particular HistoryItemType sets item_type.
C4_HistoryLeafStored ==
    (/\ call.op = "AlarmHistoryItem.endElement"
     /\ call.args[1].s \in {"AlarmName", "HistoryItemType", "HistorySummary"}) =>
        /\ HistoryField(call.args[1].s) \in DOMAIN item
        /\ item[HistoryField(call.args[1].s)] = call.args[2]

\* threshold is unset or a float, period and evaluation_periods are unset
\* or integers.
NumericTyped(s) ==
    s # NoObject =>
        /\ s["threshold"].t \in {"None", "float"}
        /\ s["period"].t \in {"None", "int"}
        /\ s["evaluation_periods"].t \in {"None", "int"}

\* C5: in every state reachable by any parse callbacks, the nodes named
\* 'threshold' or 'period' included, threshold is unset or a float and
\* period and evaluation_periods are unset or integers.
C5_NumericFieldsTyped == NumericTyped(self)

\* C5, amended: the same holds after construction and is kept by every
\* operation other than an endElement for a node literally named threshold,
\* period or evaluation_periods.
C5_NumericFieldsTypedUnlessAssignedRaw ==
    /\ NumericTyped(self)
    /\ [][\/ /\ call'.op = "endElement"
             /\ call'.args[1].s \in {"threshold", "period", "evaluation_periods"}
          \/ (NumericTyped(self) => NumericTyped(self'))]_vars

C5_Witness ==
    /\ call = [op |-> "endElement", args |-> <<Str("Threshold"), Str("5.0")>>]
    /\ result = Return(None)
    /\ self["threshold"] = PyFloat(50)
    /\ self["period"] = PyInt(60)
    /\ "Foo" \in DOMAIN self

\* C6: an add-action method called with a falsy ARN (empty string or None)
\* raises nothing and leaves every field of the record unchanged, also when
\* alarm_actions is unset.
C6_FalsyArnIsNoOp ==
    [][(call'.op \in AddOps /\ Falsy(call'.args[1])) =>
          (result' = Return(None) /\ self' = self)]_vars

C6_Witness ==
    /\ call = [op |-> "add_alarm_action", args |-> <<Str("")>>]
    /\ result = Return(None)
    /\ self["alarm_actions"] = None
    /\ self["ok_actions"].items = <<Str("arn:b")>>

\* The symbolic operator of each wire value.
SymbolOf(w) ==
    CASE w = "GreaterThanOrEqualToThreshold" -> ">="
      [] w = "GreaterThanThreshold" -> ">"
      [] w = "LessThanThreshold" -> "<"
      [] w = "LessThanOrEqualToThreshold" -> "<="

\* C7: endElement for ComparisonOperator with one of the four wire values
\* sets comparison to the corresponding symbolic operator; with any other
\* text it raises KeyError and changes no field of the record.
C7_ComparisonOperatorParsed ==
    [][(call'.op = "endElement" /\ call'.args[1] = Str("ComparisonOperator")) =>
          IF call'.args[2].s \in WireForms
          THEN /\ result' = Return(None)
               /\ self'["comparison"] = Str(SymbolOf(call'.args[2].s))
          ELSE /\ result' = Raise("KeyError")
               /\ self' = self]_vars

C7_Witness ==
    /\ call = [op |-> "endElement",
               args |-> <<Str("ComparisonOperator"), Str("BogusOperator")>>]
    /\ result = Raise("KeyError")
    /\ self["comparison"] = Str("LessThanThreshold")

\* The wire form of each symbolic operator.
WireOf(c) ==
    CASE c = ">=" -> "GreaterThanOrEqualToThreshold"
      [] c = ">" -> "GreaterThanThreshold"
      [] c = "<" -> "LessThanThreshold"
      [] c = "<=" -> "LessThanOrEqualToThreshold"

\* C8: construction with one of the four symbolic operators stores its wire
\* form, and the reverse mapping of the stored value is the symbol again (the
\* two tables are mutually inverse over exactly four pairs); with any other
\* comparison argument construction raises nothing and comparison is unset.
C8_ConstructedComparison ==
    call.op = "__init__" =>
        /\ result = Return(None)
        /\ LET c == call.args[1].comparison
           IN  IF c.t = "str" /\ c.s \in Symbols
               THEN /\ self["comparison"] = Str(WireOf(c.s))
                    /\ _rev_cmp_map[self["comparison"].s] = c.s
               ELSE self["comparison"] = None
        /\ DOMAIN _cmp_map = Symbols
        /\ DOMAIN _rev_cmp_map = WireForms
        /\ Cardinality(DOMAIN _cmp_map) = 4
        /\ Cardinality(DOMAIN _rev_cmp_map) = 4
        /\ \A k \in DOMAIN _cmp_map : _rev_cmp_map[_cmp_map[k]] = k
        /\ \A w \in DOMAIN _rev_cmp_map : _cmp_map[_rev_cmp_map[w]] = w

C8_Witness ==
    /\ call.op = "__init__"
    /\ call.args[1].comparison = Str("<=")
    /\ self["comparison"] = Str("LessThanOrEqualToThreshold")

\* The field each container node replaces.
ContainerField(name) ==
    CASE name = "AlarmActions" -> "alarm_actions"
      [] name = "InsufficientDataActions" -> "insufficient_data_actions"
      [] name = "OKActions" -> "ok_actions"

\* The identities of the lists a record holds.
ListIds(s) == {s[k].id : k \in {a \in DOMAIN s : s[a].t = "list"}}

\* C9: startElement for AlarmActions, InsufficientDataActions or OKActions
\* replaces the corresponding field by a new empty sequence, whatever it
\* held, returns that sequence and changes no other field; for any other
\* node name it returns no child context and changes no field.
C9_StartElementReplaces ==
    [][call'.op = "startElement" =>
          IF call'.args[1].s \in Containers
          THEN /\ result'.kind = "return"
               /\ result'.val.t = "list"
               /\ result'.val.items = <<>>
               /\ result'.val.id \notin ListIds(self)
               /\ self'[ContainerField(call'.args[1].s)] = result'.val
               /\ DOMAIN self' = DOMAIN self
               /\ \A k \in DOMAIN self \ {ContainerField(call'.args[1].s)} :
                      self'[k] = self[k]
          ELSE result' = Return(None) /\ self' = self]_vars

\* The first operation after a construction that was given an initial alarm
\* action (the list of identity 3, holding it) enters AlarmActions: the
\* field now holds the next list, empty.
C9_Witness ==
    /\ steps = 1
    /\ call = [op |-> "startElement", args |-> <<Str("AlarmActions")>>]
    /\ result = Return(PyList(4, <<>>))
    /\ self["alarm_actions"] = PyList(4, <<>>)

\* What the connection receives for each delegated operation on record s.
ExpectedCall(s, c) ==
    CASE c.op = "set_state" ->
           [method |-> "set_alarm_state",
            args |-> <<s["name"], c.args[2], c.args[1], c.args[3]>>]
      [] c.op = "update" -> [method |-> "update_alarm", args |-> <<SelfRef>>]
      [] c.op = "enable_actions" ->
           [method |-> "enable_alarm_actions", args |-> <<ArgList(<<s["name"]>>)>>]
      [] c.op = "disable_actions" ->
           [method |-> "disable_alarm_actions", args |-> <<ArgList(<<s["name"]>>)>>]
      [] c.op = "describe_history" ->
           [method |-> "describe_alarm_history",
            args |-> <<s["name"], c.args[1], c.args[2], c.args[3], c.args[4], c.args[5]>>]
      [] c.op = "delete" ->
           [method |-> "delete_alarms", args |-> <<ArgList(<<SelfRef>>)>>]

\* C10: each delegated operation makes exactly one call on the connection,
\* the contract's method with the record's current name and the arguments
\* in the contract's order.
C10_OneCallInContractOrder ==
    [][(call'.op \in DelegatedOps /\ self["connection"] = Connection) =>
          /\ Len(conn') = Len(conn) + 1
          /\ SubSeq(conn', 1, Len(conn)) = conn
          /\ conn'[Len(conn')].method = ExpectedCall(self, call').method
          /\ conn'[Len(conn')].args = ExpectedCall(self, call').args]_vars

C10_Witness ==
    /\ call = [op |-> "set_state", args |-> <<Str("OK"), Str("why"), Str("d")>>]
    /\ Len(conn) = 1
    /\ conn[1].method = "set_alarm_state"
    /\ conn[1].args = <<Str("a2"), Str("why"), Str("OK"), Str("d")>>

====
